---- MODULE Spec2Model ----
(***************************************************************************)
(* Capture-device lifecycle of the SmartGlassesHUD component               *)
(* (src/components/SmartGlassesHUD.tsx, lines 1-268): device enumeration,  *)
(* default selection, hot-plug refresh, stream acquisition and teardown,   *)
(* on a single-threaded event loop.  Every await of the source is a point  *)
(* where another handler may run; every handler runs to its next await     *)
(* atomically, together with the re-render and the effects it triggers.    *)
(***************************************************************************)
EXTENDS Integers, Sequences, FiniteSets, Bags, TLC

(* ---- bounds ---- *)
MaxOutstanding == 3 \* fetchDevices and startStream calls awaiting the platform at the same time
MaxLeaked == 1      \* live streams no reference is left to
MaxImageLen == 3    \* length of an encoded image, in tokens
MaxCalls == 2       \* analyzeImage calls awaiting the collaborator at the same time

Devices == {"a", "b"}   \* deviceIds of the capture sources that can be attached
NoDevice == ""          \* the initial selectedDeviceId

VARIABLES
  hw,               \* platform: attached video inputs, in enumeration order
  labelsVisible,    \* platform: enumerateDevices reports device labels
  mounted,          \* the component is mounted (videoRef.current is non-null)
  devices,          \* useState devices (ids, in catalog order)
  selectedDeviceId, \* useState selectedDeviceId
  isStreaming,      \* useState isStreaming
  error,            \* useState error ("null" = null)
  srcObject,        \* videoRef.current.srcObject: the attached stream, its source and whether its tracks are live
  acq,              \* bag of pending device-bound getUserMedia requests of startStream
  leaked,           \* device-bound streams with live tracks that are not attached
  fetches,          \* bag of the fetchDevices calls in flight
  handlers,         \* registered devicechange handlers, each by the selectedDeviceId its fetchDevices closed over
  probeStreams,     \* live streams opened by getUserMedia({video: true}) in fetchDevices
  image,            \* analyzeImage: the base64Image argument of the calls
  inFlight,         \* analyzeImage: bag of the calls awaiting generateContent
  last              \* analyzeImage: how the call that completed last ended

hud == <<hw, labelsVisible, mounted, devices, selectedDeviceId, isStreaming,
         error, srcObject, acq, leaked, fetches, handlers, probeStreams>>

analysis == <<image, inFlight, last>>

vars == <<hud, analysis>>

\* calls awaiting enumerateDevices or getUserMedia
Outstanding == BagCardinality(acq) + BagCardinality(fetches)

Range(s) == {s[i] : i \in 1..Len(s)}

Remove(s, d) == SelectSeq(s, LAMBDA x : x # d)

Last(s) == s[Len(s)]

One(x) == SetToBag({x})

\* sequences of distinct devices: what the platform can enumerate
RECURSIVE Perms(_)
Perms(S) == IF S = {} THEN {<<>>}
            ELSE UNION {{Append(p, d) : p \in Perms(S \ {d})} : d \in S}

HwConfigs == UNION {Perms(S) : S \in SUBSET Devices}

ErrorNames == {"NotReadableError", "OverconstrainedError", "Other"}

\* rejections of getUserMedia({video: true}) (line 25)
ProbeErrorNames == {"NotAllowedError", "NotFoundError"}

NoStream == [dev |-> NoDevice, live |-> FALSE]   \* srcObject is null

(* ---- startStream ---- *)

\* startStream without lines 80-83: the attached stream keeps its tracks
KeepTracks(src) == src

\* lines 80-83: stop the tracks of the stream attached to the video element
StopTracks(src) == [src EXCEPT !.live = FALSE]

\* a request issued later makes every pending request a superseded one
Superseded(b) ==
  LET count(d) == CopiesIn([dev |-> d, latest |-> TRUE], b)
                  + CopiesIn([dev |-> d, latest |-> FALSE], b)
      ds == {d \in Devices : count(d) > 0}
  IN  [r \in {[dev |-> d, latest |-> FALSE] : d \in ds} |-> count(r.dev)]

\* startStream memoised without its dependency (line 113): the request is made
\* for the selectedDeviceId of the render before the change
StartStreamStale(sel) ==
  /\ srcObject' = StopTracks(srcObject)
  /\ acq' = Superseded(acq) (+) One([dev |-> selectedDeviceId, latest |-> TRUE])

\* lines 78-95: startStream up to its await, for a non-empty selection
StartStream(sel) ==
  /\ srcObject' = StopTracks(srcObject)
  /\ acq' = Superseded(acq) (+) One([dev |-> sel, latest |-> TRUE])

\* lines 104-110 with the two named branches exchanged
ClassifySwapped(name) ==
  IF name = "NotReadableError" THEN "UnsupportedFormat"
  ELSE IF name = "OverconstrainedError" THEN "DeviceBusy"
  ELSE "ConnectionFailed"

\* lines 104-110: classification of a rejected getUserMedia
Classify(name) ==
  IF name = "NotReadableError" THEN "DeviceBusy"
  ELSE IF name = "OverconstrainedError" THEN "UnsupportedFormat"
  ELSE "ConnectionFailed"

(* ---- fetchDevices ---- *)

\* lines 17-26: a call of fetchDevices, with the selectedDeviceId its closure
\* holds.  The first enumerateDevices only decides hasLabels, and labels, once
\* visible, stay visible: a call made when they are visible is at once a call
\* awaiting the second enumerateDevices.
NewFetch(auto, sel) ==
  [auto |-> auto, sel |-> sel,
   phase |-> IF labelsVisible THEN "enum2" ELSE "enum1"]

\* lines 40-48: the id fetchDevices passes to setSelectedDeviceId, or the
\* closed-over selection when it makes no call
AutoSelectTarget(catalog, auto, sel) ==
  IF Len(catalog) > 0 /\ (auto \/ sel = NoDevice)
  THEN Last(catalog)
  ELSE sel

\* a completed fetch that writes its target whatever the selection is
SelectionWrittenAlways(target, closureSel, current) == TRUE

\* line 46: the target is written only if it differs from the selection the
\* callback closed over; React re-renders only if it differs from the state
SelectionWritten(target, closureSel, current) ==
  target # closureSel /\ target # current

\* an effect cleanup that does not remove the listener
KeepSubscribed(hs, sel) == hs

\* lines 69-71: the cleanup removes the handler the effect registered
Unsubscribe(hs, sel) == Remove(hs, sel)

(* ---- re-render after selectedDeviceId changed to newSel ---- *)
\* lines 59-72: cleanup removes the old handler, fetchDevices(false) runs again
\* and a handler closing over the new fetchDevices is registered;
\* lines 115-119: startStream runs for the new selection.
\* others: the fetches that stay in flight.
SelectionChanged(newSel, others) ==
  /\ BagCardinality(others) + BagCardinality(acq) + 2 <= MaxOutstanding
  /\ selectedDeviceId' = newSel
  /\ handlers' = Append(Unsubscribe(handlers, selectedDeviceId), newSel)
  /\ fetches' = others (+) One(NewFetch(FALSE, newSel))
  /\ StartStream(newSel)

(* ---- analyzeImage (src/services/geminiService.ts) ---- *)

\* an encoded image is a string; the model reads it as a sequence of tokens:
\* the substring 'base64,' (which cannot overlap itself), a character that
\* occurs in data-URL headers only, and a character of the base64 alphabet
Marker == "base64,"

Tokens == {Marker, ":", "A"}

Images == UNION {[1..n -> Tokens] : n \in 0..MaxImageLen}

\* position of the first 'base64,' of s, 0 when there is none
FirstMarker(s) ==
  IF \E i \in 1..Len(s) : s[i] = Marker
  THEN CHOOSE i \in 1..Len(s) :
         s[i] = Marker /\ \A j \in 1..(i - 1) : s[j] # Marker
  ELSE 0

\* String.prototype.split('base64,')
RECURSIVE Split(_)
Split(s) ==
  LET k == FirstMarker(s)
  IN  IF k = 0 THEN <<s>>
      ELSE <<SubSeq(s, 1, k - 1)>> \o Split(SubSeq(s, k + 1, Len(s)))

\* lines 21-23 without the strip
CleanBase64Unstripped(img) == img

\* lines 21-23: cleanBase64
CleanBase64(img) ==
  IF FirstMarker(img) # 0 THEN Split(img)[2] ELSE img

\* response.text of the collaborator: absent, empty or a description
Absent == "<undefined>"

ReplyTexts == {Absent, "", "a description"}

\* line 46
Placeholder == "No analysis returned from system."

\* line 46 with ?? in place of ||
ResultTextNullish(t) == IF t = Absent THEN Placeholder ELSE t

\* line 46: response.text || placeholder
ResultText(t) == IF t = Absent \/ t = "" THEN Placeholder ELSE t

NoOutcome == [kind |-> "none", reply |-> Absent, text |-> ""]

(* ---- initial state: mounted, first effects run ---- *)
HudInit ==
  /\ hw \in HwConfigs
  /\ labelsVisible \in BOOLEAN
  /\ mounted = TRUE
  /\ devices = <<>>
  /\ selectedDeviceId = NoDevice
  /\ isStreaming = FALSE
  /\ error = "null"
  /\ srcObject = NoStream
  /\ acq = EmptyBag
  /\ leaked = 0
  /\ fetches = One(NewFetch(FALSE, NoDevice))
  /\ handlers = <<NoDevice>>
  /\ probeStreams = 0

\* no call of analyzeImage has been made
AnalysisIdle ==
  /\ inFlight = EmptyBag
  /\ last = NoOutcome

\* the component on its own: analyzeImage has no caller in the repository
Init ==
  /\ HudInit
  /\ image = <<>>
  /\ AnalysisIdle

\* lines 62-66: each registered handler calls fetchDevices(true)
RECURSIVE SpawnAll(_, _)
SpawnAll(b, hs) ==
  IF hs = <<>> THEN b
  ELSE SpawnAll(b (+) One(NewFetch(TRUE, Head(hs))), Tail(hs))

(* ---- platform: a source is attached or detached ---- *)
\* lines 62-68: the devicechange event runs the registered handlers
HotPlug(h) ==
  /\ h \in HwConfigs
  /\ \/ \E d \in Devices \ Range(hw) : Remove(h, d) = hw /\ d \in Range(h)
     \/ \E d \in Range(hw) : h = Remove(hw, d)
  /\ Outstanding + Len(handlers) <= MaxOutstanding
  /\ hw' = h
  /\ fetches' = SpawnAll(fetches, handlers)
  /\ UNCHANGED <<labelsVisible, mounted, devices, selectedDeviceId, isStreaming,
                 error, srcObject, acq, leaked, handlers, probeStreams>>
  /\ UNCHANGED analysis

\* lines 20-26: first enumeration; the probe is requested when no label is visible
FetchEnum1(f) ==
  /\ BagIn(f, fetches) /\ f.phase = "enum1"
  /\ fetches' = (fetches (-) One(f)) (+)
       One([f EXCEPT !.phase = IF labelsVisible THEN "enum2" ELSE "probe"])
  /\ UNCHANGED <<hw, labelsVisible, mounted, devices, selectedDeviceId, isStreaming,
                 error, srcObject, acq, leaked, handlers, probeStreams>>
  /\ UNCHANGED analysis

\* line 25: getUserMedia({video: true}) resolves; its stream is not kept
FetchProbeResolve(f) ==
  /\ BagIn(f, fetches) /\ f.phase = "probe"
  /\ hw # <<>>
  /\ labelsVisible' = TRUE
  /\ probeStreams' = probeStreams + 1
  /\ fetches' = (fetches (-) One(f)) (+) One([f EXCEPT !.phase = "enum2"])
  /\ UNCHANGED <<hw, mounted, devices, selectedDeviceId, isStreaming,
                 error, srcObject, acq, leaked, handlers>>
  /\ UNCHANGED analysis

\* lines 25, 52-55: getUserMedia({video: true}) rejects: the user or the
\* platform refuses (NotAllowedError), or there is no camera (NotFoundError);
\* the catch does not look at the error
FetchProbeReject(f, name) ==
  /\ BagIn(f, fetches) /\ f.phase = "probe"
  /\ name \in ProbeErrorNames
  /\ name = "NotFoundError" => hw = <<>>
  /\ fetches' = fetches (-) One(f)
  /\ error' = IF mounted THEN "PermissionDenied" ELSE error
  /\ UNCHANGED <<hw, labelsVisible, mounted, devices, selectedDeviceId, isStreaming,
                 srcObject, acq, leaked, handlers, probeStreams>>
  /\ UNCHANGED analysis

\* lines 28-51: second enumeration resolves with the attached sources
FetchComplete(f) ==
  /\ BagIn(f, fetches) /\ f.phase = "enum2"
  /\ LET target == AutoSelectTarget(hw, f.auto, f.sel) IN
     IF ~mounted
     THEN /\ fetches' = fetches (-) One(f)
          /\ UNCHANGED <<devices, selectedDeviceId, error, srcObject, acq, handlers>>
     ELSE /\ devices' = hw
          /\ error' = IF Len(hw) > 0 THEN error ELSE "NoSourcesFound"
          /\ IF SelectionWritten(target, f.sel, selectedDeviceId)
             THEN SelectionChanged(target, fetches (-) One(f))
             ELSE /\ fetches' = fetches (-) One(f)
                  /\ UNCHANGED <<selectedDeviceId, srcObject, acq, handlers>>
  /\ UNCHANGED <<hw, labelsVisible, mounted, isStreaming, leaked, probeStreams>>
  /\ UNCHANGED analysis

\* lines 87-101: the device-bound getUserMedia resolves; the stream it replaces
\* on the video element is not stopped
AcquireResolve(r) ==
  /\ BagIn(r, acq)
  /\ r.dev \in Range(hw)
  /\ acq' = acq (-) One(r)
  /\ IF mounted
     THEN /\ srcObject' = [dev |-> r.dev, live |-> TRUE]
          /\ isStreaming' = TRUE
          /\ error' = "null"
          /\ leaked' = IF srcObject.live THEN leaked + 1 ELSE leaked
     ELSE /\ leaked' = leaked + 1
          /\ UNCHANGED <<srcObject, isStreaming, error>>
  /\ leaked' <= MaxLeaked
  /\ UNCHANGED <<hw, labelsVisible, mounted, devices, selectedDeviceId,
                 fetches, handlers, probeStreams>>
  /\ UNCHANGED analysis

\* lines 102-112: the device-bound getUserMedia rejects
AcquireReject(r, name) ==
  /\ BagIn(r, acq)
  /\ acq' = acq (-) One(r)
  /\ IF mounted
     THEN error' = Classify(name) /\ isStreaming' = FALSE
     ELSE UNCHANGED <<error, isStreaming>>
  /\ UNCHANGED <<hw, labelsVisible, mounted, devices, selectedDeviceId, srcObject,
                 leaked, fetches, handlers, probeStreams>>
  /\ UNCHANGED analysis

\* line 224: 'Refresh Feed' calls startStream; line 76 returns on an empty selection
RefreshFeed ==
  /\ mounted
  /\ selectedDeviceId # NoDevice
  /\ Outstanding + 1 <= MaxOutstanding
  /\ StartStream(selectedDeviceId)
  /\ UNCHANGED <<hw, labelsVisible, mounted, devices, selectedDeviceId, isStreaming,
                 error, leaked, fetches, handlers, probeStreams>>
  /\ UNCHANGED analysis

\* lines 245-255: the user picks another entry of the drop-down
SelectDevice(d) ==
  /\ mounted
  /\ d \in Range(devices) /\ d # selectedDeviceId
  /\ SelectionChanged(d, fetches)
  /\ UNCHANGED <<hw, labelsVisible, mounted, devices, isStreaming, error,
                 leaked, probeStreams>>
  /\ UNCHANGED analysis

\* lines 124-125: findIndex gives the first match, counted from 0, or -1
FindIndex(catalog, sel) ==
  LET found == {i \in 1..Len(catalog) : catalog[i] = sel}
  IN IF found = {} THEN -1
     ELSE (CHOOSE i \in found : \A j \in found : i <= j) - 1

\* a rotation that stops at the last entry instead of wrapping
NextCameraNoWrap(catalog, sel) ==
  IF Len(catalog) <= 1 THEN sel
  ELSE LET nextIndex == FindIndex(catalog, sel) + 1
       IN IF nextIndex >= Len(catalog) THEN catalog[Len(catalog)]
          ELSE catalog[nextIndex + 1]

\* lines 123-126: the id cycleCamera passes to setSelectedDeviceId, or the
\* selection itself when it returns early
NextCamera(catalog, sel) ==
  IF Len(catalog) <= 1 THEN sel
  ELSE LET nextIndex == (FindIndex(catalog, sel) + 1) % Len(catalog)
       IN catalog[nextIndex + 1]

\* lines 122-127
CycleCamera ==
  /\ mounted
  /\ Len(devices) > 1
  /\ NextCamera(devices, selectedDeviceId) # selectedDeviceId
  /\ SelectionChanged(NextCamera(devices, selectedDeviceId), fetches)
  /\ UNCHANGED <<hw, labelsVisible, mounted, devices, isStreaming, error,
                 leaked, probeStreams>>
  /\ UNCHANGED analysis

\* lines 69-71: the only cleanup of the component removes the handler; no
\* track is stopped.  The video element and the hooks' state are gone: the
\* attached stream is a stream nothing refers to any more, and the state
\* variables hold the values a mount starts from (lines 10-13).
Unmount ==
  /\ mounted
  /\ mounted' = FALSE
  /\ handlers' = Unsubscribe(handlers, selectedDeviceId)
  /\ leaked' = IF srcObject.live THEN leaked + 1 ELSE leaked
  /\ leaked' <= MaxLeaked
  /\ srcObject' = NoStream
  /\ devices' = <<>>
  /\ selectedDeviceId' = NoDevice
  /\ isStreaming' = FALSE
  /\ error' = "null"
  /\ UNCHANGED <<hw, labelsVisible, acq, fetches, probeStreams>>
  /\ UNCHANGED analysis

(* ---- analyzeImage: the calls ---- *)

\* lines 18-43: a call runs to its await of generateContent
AnalyzeCall ==
  /\ BagCardinality(inFlight) < MaxCalls
  /\ inFlight' = inFlight (+) One([input |-> image, sent |-> CleanBase64(image)])
  /\ UNCHANGED <<image, last>>
  /\ UNCHANGED hud

\* lines 45-47: generateContent resolves; the call returns {text}
AnalyzeReturn(c, t) ==
  /\ BagIn(c, inFlight)
  /\ t \in ReplyTexts
  /\ inFlight' = inFlight (-) One(c)
  /\ last' = [kind |-> "returned", reply |-> t, text |-> ResultText(t)]
  /\ UNCHANGED image
  /\ UNCHANGED hud

\* lines 48-51: generateContent rejects; the catch throws a new Error
AnalyzeThrow(c) ==
  /\ BagIn(c, inFlight)
  /\ inFlight' = inFlight (-) One(c)
  /\ last' = [kind |-> "threw", reply |-> Absent, text |-> "Failed to analyze visual input."]
  /\ UNCHANGED image
  /\ UNCHANGED hud

\* analyzeImage on its own, for every encoded image up to MaxImageLen
InitAnalyze ==
  /\ HudInit
  /\ hw = <<>>
  /\ labelsVisible = TRUE
  /\ image \in Images
  /\ AnalysisIdle

NextAnalyze ==
  \/ AnalyzeCall
  \/ \E c \in BagToSet(inFlight), t \in ReplyTexts : AnalyzeReturn(c, t)
  \/ \E c \in BagToSet(inFlight) : AnalyzeThrow(c)

SpecAnalyze == InitAnalyze /\ [][NextAnalyze]_vars

(* ---- cycleCamera over every catalog and selection ---- *)
CycleIds == {"a", "b", "c", "d"}

\* catalogs of distinct ids, in every order
Catalogs == UNION {Perms(S) : S \in SUBSET CycleIds}

\* a mounted, idle component holding any catalog and any selection, the
\* selected device being detached or not
InitCycle ==
  /\ devices \in Catalogs
  /\ selectedDeviceId \in CycleIds \cup {NoDevice}
  /\ hw = devices
  /\ labelsVisible = TRUE
  /\ mounted = TRUE
  /\ isStreaming = FALSE
  /\ error = "null"
  /\ srcObject = NoStream
  /\ acq = EmptyBag
  /\ leaked = 0
  /\ fetches = EmptyBag
  /\ handlers = <<selectedDeviceId>>
  /\ probeStreams = 0
  /\ image = <<>>
  /\ AnalysisIdle

NextCycle == CycleCamera

SpecCycle == InitCycle /\ [][NextCycle]_vars

Requests == [dev : Devices, latest : BOOLEAN]

Next ==
  \/ \E h \in HwConfigs : HotPlug(h)
  \/ \E f \in BagToSet(fetches) : FetchEnum1(f)
  \/ \E f \in BagToSet(fetches) : FetchProbeResolve(f)
  \/ \E f \in BagToSet(fetches), name \in ProbeErrorNames : FetchProbeReject(f, name)
  \/ \E f \in BagToSet(fetches) : FetchComplete(f)
  \/ \E r \in Requests : AcquireResolve(r)
  \/ \E r \in Requests, name \in ErrorNames : AcquireReject(r, name)
  \/ RefreshFeed
  \/ \E d \in Devices : SelectDevice(d)
  \/ CycleCamera
  \/ Unmount

Spec == Init /\ [][Next]_vars

TypeOK ==
  /\ hw \in HwConfigs
  /\ devices \in HwConfigs
  /\ selectedDeviceId \in Devices \cup {NoDevice}
  /\ Outstanding <= MaxOutstanding
  /\ leaked <= MaxLeaked
(***************************************************************************)
(* Properties                                                              *)
(***************************************************************************)

\* device-bound streams whose tracks have not been stopped
LiveStreams == leaked + (IF srcObject.live THEN 1 ELSE 0)

\* C1 (supersession law): the completion of a startStream call that is not the
\* most recently issued one, whether its getUserMedia resolved or rejected,
\* leaves the attached stream, isStreaming and error as they were.
C1_Supersession ==
  [][\A r \in Requests :
       (~r.latest /\ (AcquireResolve(r) \/ \E n \in ErrorNames : AcquireReject(r, n)))
       => UNCHANGED <<srcObject, isStreaming, error>>]_vars

\* C2: at most one stream returned by the device-bound getUserMedia of
\* startStream has tracks that were not stopped.
C2_AtMostOneSession == LiveStreams <= 1

\* C3: the session is never reported Live (isStreaming) while an error is
\* surfaced (error non-null).
C3_OneSessionState == ~(isStreaming /\ error # "null")

\* C4: whenever the session is reported Live (isStreaming), the attached stream
\* has live tracks.
C4_LiveHasLiveTracks == isStreaming => srcObject.live

\* C5 (release before acquire): whenever startStream issues a device-bound
\* getUserMedia request, the stream attached to the video element has no live
\* track at that moment.
C5_ReleaseBeforeAcquire ==
  [][BagCardinality(acq') > BagCardinality(acq) => ~srcObject'.live]_vars

\* C5 witness: a request was issued while a stream was attached, and that
\* stream's tracks are stopped while the request is pending.
C5_Witness ==
  /\ \E r \in BagToSet(acq) : r.latest
  /\ srcObject.dev # NoDevice
  /\ ~srcObject.live

\* C6: once the component is unmounted, no stream it opened has a live track
\* and the state is Idle.
C6_ReleasedAfterUnmount ==
  ~mounted => /\ LiveStreams = 0
              /\ probeStreams = 0
              /\ ~isStreaming
              /\ error = "null"

\* C7 (default selection): whenever fetchDevices completes with a non-empty
\* catalog and either autoSelect is true or no source is selected, the selected
\* source afterwards is the last entry of the catalog.
C7_DefaultSelection ==
  [][\A f \in BagToSet(fetches) :
       (/\ FetchComplete(f)
        /\ mounted
        /\ Len(hw) >= 1
        /\ (f.auto \/ selectedDeviceId = NoDevice))
       => selectedDeviceId' = Last(devices')]_vars

\* C8 (zero sources): a completed enumeration with an empty catalog surfaces
\* NoSourcesFound, and while the catalog stays empty no device-bound
\* getUserMedia request is issued and the session does not become Live.
C8_ZeroSources ==
  [][/\ \A f \in BagToSet(fetches) :
          (FetchComplete(f) /\ mounted /\ hw = <<>>) => error' = "NoSourcesFound"
     /\ (mounted /\ devices = <<>> /\ devices' = <<>>)
          => /\ BagCardinality(acq') <= BagCardinality(acq)
             /\ (isStreaming' => isStreaming)]_vars

\* C9 (retry on topology change): when a hot-plug refresh completes with a
\* non-empty catalog while NoSourcesFound is surfaced and no request is
\* pending, a device-bound getUserMedia request for the selected source is
\* issued; and a request that resolves clears the error and makes the session
\* Live.
C9_RetryOnHotPlug ==
  [][/\ \A f \in BagToSet(fetches) :
          (/\ FetchComplete(f)
           /\ mounted
           /\ f.auto
           /\ error = "NoSourcesFound"
           /\ acq = EmptyBag
           /\ Len(hw) >= 1)
          => \E r \in BagToSet(acq') : r.latest /\ r.dev = selectedDeviceId'
     /\ \A r \in Requests :
          (AcquireResolve(r) /\ mounted) => (isStreaming' /\ error' = "null")]_vars

\* C10 (classification): when the device-bound getUserMedia of a mounted
\* component rejects, isStreaming becomes false and error becomes DeviceBusy
\* for NotReadableError, UnsupportedFormat for OverconstrainedError and the
\* generic connection failure for any other error.
C10_FailureClassified ==
  [][\A r \in Requests, n \in ErrorNames :
       (AcquireReject(r, n) /\ mounted)
       => /\ ~isStreaming'
          /\ n = "NotReadableError" => error' = "DeviceBusy"
          /\ n = "OverconstrainedError" => error' = "UnsupportedFormat"
          /\ n = "Other" => error' = "ConnectionFailed"]_vars

\* C10 witness: a session that had a stream attached is not streaming and
\* shows DeviceBusy.
C10_Witness ==
  /\ mounted
  /\ error = "DeviceBusy"
  /\ ~isStreaming
  /\ srcObject.dev # NoDevice

\* C11 (local recovery of UnsupportedFormat): when the device-bound
\* getUserMedia of a mounted component rejects with OverconstrainedError, a
\* second request is issued in its place and UnsupportedFormat is not
\* surfaced by that rejection.
C11_FormatFallback ==
  [][\A r \in Requests :
       (AcquireReject(r, "OverconstrainedError") /\ mounted)
       => /\ BagCardinality(acq') >= BagCardinality(acq)
          /\ error' # "UnsupportedFormat"]_vars

\* C12 (recovery to Live): when the most recently issued device-bound request
\* of a mounted component resolves, whatever error was surfaced before, the
\* session is Live, the error is cleared and the attached stream is a live
\* stream of the selected source.
C12_RecoveryToLive ==
  [][\A r \in Requests :
       (AcquireResolve(r) /\ r.latest /\ mounted)
       => /\ isStreaming'
          /\ error' = "null"
          /\ srcObject' = [dev |-> selectedDeviceId', live |-> TRUE]]_vars

\* C12 witness: the session is Live on the selected source with no error
\* although the last enumeration found no source (NoSourcesFound had been
\* surfaced) and no request is pending.
C12_Witness ==
  /\ mounted
  /\ devices = <<>>
  /\ isStreaming
  /\ error = "null"
  /\ selectedDeviceId # NoDevice
  /\ srcObject = [dev |-> selectedDeviceId, live |-> TRUE]
  /\ acq = EmptyBag

\* C13 (PermissionDenied exactly on refusal): when the permission request of
\* fetchDevices fails in a mounted component, PermissionDenied is surfaced if
\* and only if the failure is a refusal (NotAllowedError), and the catalog,
\* the selection and the pending requests are left as they were.
C13_PermissionDeniedExact ==
  [][\A f \in BagToSet(fetches), n \in ProbeErrorNames :
       (FetchProbeReject(f, n) /\ mounted)
       => /\ (error' = "PermissionDenied") <=> (n = "NotAllowedError")
          /\ UNCHANGED <<devices, selectedDeviceId, acq>>]_vars

\* C14 (scoped subscription): at most one devicechange handler of the
\* component is registered at any time, and none once it is unmounted.
C14_ScopedSubscription ==
  /\ Len(handlers) <= 1
  /\ ~mounted => handlers = <<>>

\* C14 witness: the subscribing effect has run again after a selection change
\* and the only registered handler is the one closing over the new selection.
C14_Witness ==
  /\ mounted
  /\ selectedDeviceId # NoDevice
  /\ handlers = <<selectedDeviceId>>

\* C15 (auto re-selection only on hot-plug): a fetchDevices call made with
\* autoSelect = false that completes while a source is selected leaves the
\* selected source as it was.
C15_PassiveKeepsSelection ==
  [][\A f \in BagToSet(fetches) :
       (FetchComplete(f) /\ mounted /\ ~f.auto /\ selectedDeviceId # NoDevice)
       => selectedDeviceId' = selectedDeviceId]_vars

\* C16 (analyze never throws): no call of analyzeImage completes by raising;
\* a failure of the collaborator call is returned as a value.
C16_NeverThrows == last.kind # "threw"

\* C17 (one analyze request at a time): at most one call of analyzeImage has
\* its request to the collaborator outstanding.
C17_OneInFlight == BagCardinality(inFlight) <= 1

\* the strings without a 'base64,': raw base64 payloads and data-URL headers
NoMarker == {s \in Images : \A i \in 1..Len(s) : s[i] # Marker}

\* C18 (data-URL prefix stripping): the payload sent to the collaborator is the
\* input itself when the input has no 'base64,' header, and for an input made
\* of a header ending in 'base64,' followed by a payload it is that payload.
C18_PrefixStripped ==
  \A c \in BagToSet(inFlight) :
    /\ c.input \in NoMarker => c.sent = c.input
    /\ \A h \in NoMarker, q \in NoMarker :
         c.input = h \o <<Marker>> \o q => c.sent = q

\* C18 witness: a call is in flight whose input has a header and a payload,
\* and the payload alone was sent.
C18_Witness ==
  \E c \in BagToSet(inFlight) :
    c.input = <<":", Marker, "A">> /\ c.sent = <<"A">>

\* C19 (empty description placeholder): a call that returned has a non-empty
\* text: the collaborator's text when that is non-empty, the placeholder when
\* it is empty or absent.
C19_Placeholder ==
  last.kind = "returned"
  => /\ last.text # ""
     /\ last.reply \notin {"", Absent} => last.text = last.reply
     /\ last.reply \in {"", Absent} => last.text = "No analysis returned from system."

\* C19 witness: the collaborator returned an empty text and the call returned
\* the placeholder.
C19_Witness ==
  /\ last.kind = "returned"
  /\ last.reply = ""
  /\ last.text = Placeholder

\* C20 (no flicker on an unchanged default): when a fetchDevices call completes
\* in a mounted component and the last catalog entry is the selected device,
\* the selection, the attached stream, the pending acquisitions, the
\* subscription and the session state are left as they were.
C20_NoFlicker ==
  [][\A f \in BagToSet(fetches) :
       (FetchComplete(f) /\ mounted /\ Len(hw) > 0 /\ Last(hw) = selectedDeviceId)
       => UNCHANGED <<selectedDeviceId, srcObject, acq, handlers, isStreaming, error>>]_vars

\* C20 witness: every refresh has completed, the catalog's last entry is the
\* selected device and its stream is still attached and live.
C20_Witness ==
  /\ mounted /\ fetches = EmptyBag /\ acq = EmptyBag
  /\ devices = <<"a", "b">> /\ hw = devices
  /\ selectedDeviceId = "b"
  /\ isStreaming /\ error = "null"
  /\ srcObject.dev = "b" /\ srcObject.live

\* C21 (selection within the catalog): the selected device id is empty or the
\* id of an entry of the catalog the component holds.  Before the first
\* enumeration completes the selection is empty, so the statement is checked
\* in every state.
C21_SelectionInCatalog == selectedDeviceId \in Range(devices) \cup {NoDevice}

\* C22 (no leak): in a mounted component with no fetchDevices call and no
\* startStream call in progress, every stream that was opened is the attached
\* one or has been stopped: no permission-probe stream and no unattached
\* device stream is live.
C22_NoLeak ==
  (mounted /\ fetches = EmptyBag /\ acq = EmptyBag)
  => (probeStreams = 0 /\ leaked = 0)

\* C23 (manual-override rotation): with at most one catalog entry cycleCamera
\* leaves the selection as it is; with two or more (distinct) entries it
\* selects the entry after the current one, the first entry after the last,
\* and the first entry when the selection is not in the catalog; the new
\* selection is a catalog entry other than the previous selection.
C23_Rotation ==
  /\ [](LET n == NextCamera(devices, selectedDeviceId)
            len == Len(devices)
        IN /\ len <= 1 => n = selectedDeviceId
           /\ len >= 2 =>
                /\ n \in Range(devices) /\ n # selectedDeviceId
                /\ selectedDeviceId \notin Range(devices) => n = devices[1]
                /\ \A i \in 1..len :
                     devices[i] = selectedDeviceId
                     => n = (IF i = len THEN devices[1] ELSE devices[i + 1]))
  /\ [][CycleCamera =>
          selectedDeviceId' = NextCamera(devices, selectedDeviceId)]_vars

\* C23 witness: cycleCamera wrapped from the last of three entries, or left a
\* selection that was not in the catalog, and the stream of the first entry
\* has been requested.
C23_Witness ==
  /\ devices = <<"a", "b", "c">>
  /\ selectedDeviceId = "a"
  /\ handlers = <<"a">>
  /\ \E r \in BagToSet(acq) : r.dev = "a" /\ r.latest
====
